---- MODULE Spec2Model ----
(***************************************************************************)
(* Model of convert_fendl.py: the FENDL download / extract / convert       *)
(* script, its special-case functions and its two ENDF splitters.          *)
(*                                                                         *)
(* The script is straight-line code.  pc is the position in it, err is the *)
(* exception that ended the run ("" while none was raised).  The file      *)
(* system, the network, unzip and the openmc parsers are the environment:  *)
(* what they return is chosen with \E where the script reads it.           *)
(***************************************************************************)
EXTENDS Integers, Sequences, FiniteSets, TLC

\* ------------------------------------------------------------------ bounds
MaxParticles == 2   \* longest --particles list
MaxStem == 2        \* distinct file stems a directory may hold
MaxNames == 2       \* distinct dataset names a parser may return
MaxPipeLen == 2     \* records of FENDLEP.DAT when split inside the pipeline
MaxLen == 4         \* records of a stream handed to a splitter directly
MaxSeq == 3         \* largest trailing sequence number

VARIABLES
    args,             \* parsed command line (line 59)
    pc,               \* position in the script
    idx,              \* index into args.particles of the running for loop
    err,              \* exception that ended the run, "" if none
    cwdir,            \* process working directory (os.chdir)
    output_warnings,  \* line 330
    library,          \* paths registered with openmc.data.DataLibrary
    exhausted,        \* particles whose glob generator has been iterated
    discovered,       \* particle -> what its glob generator yielded
    inf,              \* 19K_039.ace, read by a special case, holds 'Inf'
    queue,            \* files the running convert loop still has to visit
    log,              \* what the convert loops did, file by file
    xml_exports,      \* calls of library.export_to_xml
    printed,          \* warnings printed by the final loop
    removed,          \* paths deleted by the cleanup branches
    toolFailed,       \* some unzip call returned a non-zero exit code
    finished,         \* particles whose convert iteration has ended
    stream,           \* records of the file handed to a splitter
    called,           \* function applied to stream / the sentinel file
    result            \* what that call returned or how it failed

vars == <<args, pc, idx, err, cwdir, output_warnings, library, exhausted,
          discovered, inf, queue, log, xml_exports, printed, removed,
          toolFailed, finished, stream, called, result>>

pipeVars == <<args, pc, idx, err, output_warnings, library, exhausted,
              discovered, inf, queue, log, xml_exports, printed, removed,
              toolFailed, finished>>

\* ------------------------------------------------------------ command line
Releases == {"3.1d", "3.1a", "3.0", "2.1"}
Particles == {"neutron", "photon"}

SeqsUpTo(S, n) == UNION {[1..k -> S] : k \in 0..n}

\* nargs='+' with choices: a non-empty list, repetitions allowed
ParticleLists == SeqsUpTo(Particles, MaxParticles) \ {<<>>}

Args == [release : Releases, particles : ParticleLists,
         download : BOOLEAN, extract : BOOLEAN, cleanup : BOOLEAN]

\* ------------------------------------------------------------------- files
\* A file name is a stem and a suffix.  Stems are ordered as their numbers;
\* stem 1 is "19K_039".  The ACE directory may hold one ACE file per stem,
\* one superseded file (trailing '_') and one .xsd index; the ENDF directory
\* one .txt and one .endf file per stem.
PhotonSuffixes == {".txt", ".endf"}
NeutronFiles ==
    [stem : 1..MaxStem, suffix : {".ace"}]
        \cup {[stem |-> 1, suffix |-> ".ace_"], [stem |-> 1, suffix |-> ".xsd"]}
PhotonFiles == [stem : 1..MaxStem, suffix : PhotonSuffixes]
K39 == [stem |-> 1, suffix |-> ".ace"]

\* str.endswith for the suffixes the script tests
EndsWith(f, s) ==
    \/ f.suffix = s
    \/ f.suffix = ".ace_" /\ s = "_"

\* rank of a suffix in lexicographic order
SuffixRank(s) ==
    CASE s = ".ace" -> 1
      [] s = ".ace_" -> 2
      [] s = ".endf" -> 3
      [] s = ".txt" -> 4
      [] s = ".xsd" -> 5

\* Path.__lt__ on files of one directory
PathLess(f, g) ==
    \/ f.stem < g.stem
    \/ f.stem = g.stem /\ SuffixRank(f.suffix) < SuffixRank(g.suffix)

RECURSIVE sorted(_)
sorted(S) ==
    IF S = {} THEN <<>>
    ELSE LET m == CHOOSE x \in S : \A y \in S \ {x} : PathLess(x, y)
         IN <<m>> \o sorted(S \ {m})

\* Path.glob: the files of the universe the pattern matches
GlobMatches(universe, pattern) ==
    {f \in universe : pattern = "*" \/ EndsWith(f, pattern)}

\* -------------------------------------------------------- release_details
release_details ==
    [r \in Releases |->
      CASE r = "3.1a" ->
             [neutron |-> [file_type |-> "ace", glob |-> ".ace"],
              photon |-> [file_type |-> "endf", glob |-> ".txt"]]
        [] r = "3.1d" ->
             [neutron |-> [file_type |-> "ace", glob |-> "*"],
              photon |-> [file_type |-> "endf", glob |-> ".txt"]]
        [] r = "3.0" ->
             [neutron |-> [file_type |-> "ace", glob |-> ".ace",
                           special_cases |->
                             [process |-> (K39 :> "fendl30_k39")]],
              photon |-> [file_type |-> "endf", glob |-> ".txt"]]
        [] r = "2.1" ->
             [neutron |-> [file_type |-> "ace", glob |-> ".ace"],
              photon |-> [file_type |-> "endf", glob |-> ".endf",
                          special_cases |->
                            [extract |-> ("FENDLEP.DAT" :> "fendl21_endf")]]]]

\* variant: the table built with list(...glob(...)), every pattern read at
\* start-up
EnumeratedAtBuild_Eager == {"neutron", "photon"}

\* The glob generators stored in release_details are created when the table
\* is built and yield nothing until a for loop iterates them.
EnumeratedAtBuild == {}

check_special_case(particle_details, script_step) ==
    /\ "special_cases" \in DOMAIN particle_details
    /\ script_step \in DOMAIN particle_details.special_cases

\* ------------------------------------------------------------ ENDF streams
\* A record of an ENDF file after its header line: seq is the integer in
\* the trailing column (-1: the column holds no integer), head says whether
\* openmc can read a head record (ZA) from the line.
Lines == [seq : -1..MaxSeq, head : BOOLEAN]
Streams(n) == SeqsUpTo(Lines, n)

\* messages: '' is NoMessage
NoMessage == [text |-> "", names |-> <<>>]
InfWarning(filename) ==
    [text |-> "WARNING: contains 'Inf' values", names |-> <<filename, filename>>]

\* what a call of a function of the script leaves behind:
\*   ok       - it returned (FALSE: it raised)
\*   cwd      - the process working directory afterwards
\*   created  - files it wrote: head is the stream line the name was read
\*              from, content the lines written (0 is the header line)
\*   skip_file, err_msg - the dictionary returned
Outcome(ok, cwd, created, skip_file, err_msg) ==
    [ok |-> ok, cwd |-> cwd, created |-> created,
     skip_file |-> skip_file, err_msg |-> err_msg]

\* skip_file as fendl30_k39 returns it
K39SkipFile(hasInf) == TRUE

\* fendl30_k39 (lines 86-100).  filename is the module-level loop variable
\* the message is formatted with.  dirOK: os.chdir succeeds; present: open
\* succeeds; here: the working directory of the caller.
fendl30_k39(here, file_location, filename, dirOK, present, hasInf) ==
    IF ~dirOK THEN Outcome(FALSE, here, <<>>, FALSE, NoMessage)
    ELSE IF ~present THEN Outcome(FALSE, file_location, <<>>, FALSE, NoMessage)
    ELSE Outcome(TRUE, "cwd", <<>>, K39SkipFile(hasInf),
                 IF hasInf THEN InfWarning(filename) ELSE NoMessage)

\* the for loop of fendl21_endf (lines 115-143); buf is current_file_str as
\* the list of lines it holds
RECURSIVE Fendl21Loop(_, _, _, _, _)
Fendl21Loop(s, pos, buf, last_line_no, created) ==
    IF pos > Len(s) THEN [ok |-> TRUE, created |-> created]
    ELSE IF s[pos].seq < 0 THEN [ok |-> FALSE, created |-> created]
    ELSE LET current_line_no == s[pos].seq
             boundary == current_line_no < last_line_no
         IN IF boundary /\ ~s[buf[2]].head
            THEN [ok |-> FALSE, created |-> created]
            ELSE LET written == IF boundary
                                THEN Append(created, [head |-> buf[2], content |-> buf])
                                ELSE created
                     kept == IF boundary /\ current_line_no = 1 THEN <<0>> ELSE buf
                 IN Fendl21Loop(s, pos + 1, Append(kept, pos), current_line_no, written)

\* fendl21_endf (lines 103-147)
fendl21_endf(here, file_location, s, dirOK, present) ==
    IF ~dirOK THEN Outcome(FALSE, here, <<>>, FALSE, NoMessage)
    ELSE IF ~present THEN Outcome(FALSE, file_location, <<>>, FALSE, NoMessage)
    ELSE LET r == Fendl21Loop(s, 1, <<0>>, 0, <<>>)
         IN IF r.ok THEN Outcome(TRUE, "cwd", r.created, FALSE, NoMessage)
            ELSE Outcome(FALSE, file_location, r.created, FALSE, NoMessage)

\* the for loop of split_endf (lines 285-314).  get_head_record(fh) reads
\* the next line of the source file itself, so the loop never sees it.
RECURSIVE SplitLoop(_, _, _, _, _)
SplitLoop(s, pos, buf, last_line_no, created) ==
    IF pos > Len(s) THEN [ok |-> TRUE, created |-> created]
    ELSE IF s[pos].seq < 0 THEN [ok |-> FALSE, created |-> created]
    ELSE LET current_line_no == s[pos].seq
             boundary == current_line_no < last_line_no
         IN IF boundary /\ (pos + 1 > Len(s) \/ ~s[pos + 1].head)
            THEN [ok |-> FALSE, created |-> created]
            ELSE LET written == IF boundary
                                THEN Append(created, [head |-> pos + 1, content |-> buf])
                                ELSE created
                     kept == IF boundary /\ current_line_no = 1 THEN <<0>> ELSE buf
                     next == IF boundary THEN pos + 2 ELSE pos + 1
                 IN SplitLoop(s, next, Append(kept, pos), current_line_no, written)

\* split_endf (lines 259-316): no chdir; returns created_files
split_endf(s, present) ==
    IF ~present THEN Outcome(FALSE, "cwd", <<>>, FALSE, NoMessage)
    ELSE LET r == SplitLoop(s, 1, <<0>>, 0, <<>>)
         IN Outcome(r.ok, "cwd", r.created, FALSE, NoMessage)

\* the function a special_cases table names, applied to a directory
InvokeSpecialCase(fn, here, file_location, filename, s, dirOK, present, hasInf) ==
    IF fn = "fendl30_k39"
    THEN fendl30_k39(here, file_location, filename, dirOK, present, hasInf)
    ELSE fendl21_endf(here, file_location, s, dirOK, present)

NoResult == Outcome(TRUE, "cwd", <<>>, FALSE, NoMessage)

\* a direct call: the function and what the file system gave it
Call(fn, dirOK, present, hasInf) ==
    [fn |-> fn, dirOK |-> dirOK, present |-> present, hasInf |-> hasInf]

NoCall == Call("none", TRUE, TRUE, FALSE)

\* ---------------------------------------------------------------- pipeline
\* Dataset names are interchangeable, so a parser's answers are numbered in
\* the order they first appear: a file gets a name some earlier file of the
\* particle got, or the next unused one.
UsedNames(particle) ==
    {library[i].name : i \in {k \in DOMAIN library : library[k].particle = particle}}

DataNames(particle) ==
    {n \in 1..MaxNames : n <= Cardinality(UsedNames(particle)) + 1}

\* for p in args.particles has elements left
InLoop == idx <= Len(args.particles)

\* variant: the loop test off by one, the last particle is left out
ConvertLoopOver_OneEarly == idx >= Len(args.particles)

\* the convert loop has visited every particle (lines 390-449)
ConvertLoopOver == idx > Len(args.particles)

Raise(e) ==
    /\ err' = e
    /\ UNCHANGED <<args, pc, idx, output_warnings, library, exhausted,
                   discovered, inf, queue, xml_exports, printed, removed,
                   finished>>

Init ==
    /\ args \in Args
    /\ pc = "download"
    /\ idx = 1
    /\ err = ""
    /\ cwdir = "cwd"
    /\ output_warnings = <<>>
    /\ library = <<>>
    /\ exhausted = EnumeratedAtBuild
    /\ discovered = [p \in Particles |-> {}]
    /\ inf = FALSE
    /\ queue = <<>>
    /\ log = <<>>
    /\ xml_exports = 0
    /\ printed = 0
    /\ removed = {}
    /\ toolFailed = FALSE
    /\ finished = <<>>
    /\ stream = <<>>
    /\ called = NoCall
    /\ result = NoResult

\* lines 338-347, one iteration: mkdir, chdir, download every archive
DownloadParticle ==
    /\ pc = "download" /\ err = "" /\ args.download /\ InLoop
    /\ cwdir' = "download/" \o args.particles[idx]
    /\ \E fetched \in BOOLEAN :
         IF fetched
         THEN /\ idx' = idx + 1
              /\ UNCHANGED <<args, pc, err, output_warnings, library,
                             exhausted, discovered, inf, queue, xml_exports,
                             printed, removed, finished>>
         ELSE Raise("NetworkError")
    /\ UNCHANGED <<log, toolFailed, stream, called, result>>

\* line 349, after the loop
DownloadDone ==
    /\ pc = "download" /\ err = "" /\ args.download /\ ~InLoop
    /\ cwdir' = "cwd"
    /\ pc' = "extract"
    /\ idx' = 1
    /\ UNCHANGED <<args, err, output_warnings, library, exhausted,
                   discovered, inf, queue, log, xml_exports, printed,
                   removed, toolFailed, finished, stream, called, result>>

\* line 335 false
SkipDownload ==
    /\ pc = "download" /\ err = "" /\ ~args.download
    /\ pc' = "extract"
    /\ UNCHANGED <<args, idx, err, cwdir, output_warnings, library,
                   exhausted, discovered, inf, queue, log, xml_exports,
                   printed, removed, toolFailed, finished, stream, called,
                   result>>

\* exit codes subprocess.call may return for unzip
UnzipExitCodes == {0, 9}

\* lines 357-377, one iteration.  exists: the particle's download directory
\* is there; rc: 0 unless some unzip call failed.
ExtractParticle ==
    /\ pc = "extract" /\ err = "" /\ args.extract /\ InLoop
    /\ LET particle == args.particles[idx]
           particle_details == release_details[args.release][particle]
           extraction_dir == IF particle_details.file_type = "ace"
                             THEN "ace" ELSE "endf"
           here == "download/" \o particle
       IN \E exists \in (IF args.download THEN {TRUE} ELSE BOOLEAN),
             rc \in UnzipExitCodes :
            IF ~exists
            THEN /\ Raise("FileNotFoundError")
                 /\ UNCHANGED <<cwdir, toolFailed>>
            ELSE /\ toolFailed' = (toolFailed \/ rc # 0)
                 /\ IF check_special_case(particle_details, "extract")
                    THEN \E s \in Streams(MaxPipeLen),
                            dirOK \in (IF rc = 0 THEN {TRUE} ELSE BOOLEAN),
                            present \in BOOLEAN :
                           LET special_cases == particle_details.special_cases.extract
                               case == CHOOSE c \in DOMAIN special_cases : TRUE
                               ret == InvokeSpecialCase(special_cases[case], here,
                                          extraction_dir, case, s, dirOK, present, FALSE)
                           IN /\ cwdir' = ret.cwd
                              /\ IF ret.ok
                                 THEN /\ output_warnings' =
                                           Append(output_warnings, ret.err_msg)
                                      /\ idx' = idx + 1
                                      /\ removed' = IF args.cleanup
                                                    THEN removed \cup {here \o "/*.zip"}
                                                    ELSE removed
                                      /\ UNCHANGED <<args, pc, err, library,
                                             exhausted, discovered, inf, queue,
                                             xml_exports, printed, finished>>
                                 ELSE /\ err' = "SpecialCaseError"
                                      /\ removed' = IF args.cleanup
                                                    THEN removed \cup {here \o "/*.zip"}
                                                    ELSE removed
                                      /\ UNCHANGED <<args, pc, idx, output_warnings,
                                             library, exhausted, discovered, inf,
                                             queue, xml_exports, printed, finished>>
                    ELSE /\ cwdir' = here
                         /\ idx' = idx + 1
                         /\ removed' = IF args.cleanup
                                       THEN removed \cup {here \o "/*.zip"}
                                       ELSE removed
                         /\ UNCHANGED <<args, pc, err, output_warnings, library,
                                        exhausted, discovered, inf, queue,
                                        xml_exports, printed, finished>>
    /\ UNCHANGED <<log, stream, called, result>>

\* lines 379-382, after the loop
ExtractDone ==
    /\ pc = "extract" /\ err = "" /\ args.extract /\ ~InLoop
    /\ cwdir' = "cwd"
    /\ removed' = IF args.cleanup THEN removed \cup {"download"} ELSE removed
    /\ pc' = "convert"
    /\ idx' = 1
    /\ UNCHANGED <<args, err, output_warnings, library, exhausted,
                   discovered, inf, queue, log, xml_exports, printed,
                   toolFailed, finished, stream, called, result>>

\* line 355 false
SkipExtract ==
    /\ pc = "extract" /\ err = "" /\ ~args.extract
    /\ pc' = "convert"
    /\ idx' = 1
    /\ UNCHANGED <<args, err, cwdir, output_warnings, library, exhausted,
                   discovered, inf, queue, log, xml_exports, printed,
                   removed, toolFailed, finished, stream, called, result>>

\* variant: the filter without its second test
KnownBadSuffix_UnderscoreOnly(f) == EndsWith(f, "_")

\* the suffixes line 403 filters out
KnownBadSuffix(f) == EndsWith(f, "_") \/ EndsWith(f, ".xsd")

\* lines 400-404
neutron_files(ace_files) == {f \in ace_files : ~KnownBadSuffix(f)}

Entry(particle, file, what, name) ==
    [particle |-> particle, file |-> file, result |-> what, name |-> name]

\* h5_file: particle_destination / f'{data.name}.h5'
H5File(particle, name) == [particle |-> particle, name |-> name]

\* lines 390-405 / 430-431: the head of one iteration of the particle loop.
\* The for statement iterates the glob generator of release_details: the
\* first time it yields what the directory holds now, afterwards nothing.
ConvertStart ==
    /\ pc = "convert" /\ err = "" /\ InLoop
    /\ LET particle == args.particles[idx]
           particle_details == release_details[args.release][particle]
           universe == IF particle = "neutron" THEN NeutronFiles ELSE PhotonFiles
           holds == IF particle \in exhausted THEN {}
                    ELSE GlobMatches(universe, particle_details.glob)
       IN \E listing \in SUBSET holds, hasInf \in BOOLEAN :
            /\ hasInf => (K39 \in listing
                          /\ check_special_case(particle_details, "process"))
            /\ queue' = IF particle = "neutron"
                        THEN sorted(neutron_files(listing))
                        ELSE sorted(listing)
            /\ discovered' = IF particle \in exhausted THEN discovered
                             ELSE [discovered EXCEPT ![particle] = listing]
            /\ inf' = IF particle = "neutron" /\ particle \notin exhausted
                      THEN hasInf ELSE inf
            /\ exhausted' = exhausted \cup {particle}
    /\ pc' = "convert_files"
    /\ UNCHANGED <<args, idx, err, cwdir, output_warnings, library, log,
                   xml_exports, printed, removed, toolFailed, finished,
                   stream, called, result>>

\* lines 405-424, one iteration of the neutron file loop.  parsed: the name
\* of the dataset from_ace returns, 0 when it raises.
ConvertNeutronFile ==
    /\ pc = "convert_files" /\ err = "" /\ queue # <<>>
    /\ args.particles[idx] = "neutron"
    /\ LET particle == "neutron"
           filename == Head(queue)
           particle_details == release_details[args.release][particle]
           special == check_special_case(particle_details, "process")
       IN IF special /\ "extract" \notin DOMAIN particle_details.special_cases
          THEN \* line 408: special_cases['extract'] of a table without it
               /\ err' = "KeyError"
               /\ log' = Append(log, Entry(particle, filename, "error", 0))
               /\ UNCHANGED <<queue, cwdir, output_warnings, library>>
          ELSE \E parsed \in DataNames(particle) \cup {0}, dirOK, present \in BOOLEAN :
                 LET special_cases == particle_details.special_cases.extract
                     hit == special /\ filename \in DOMAIN special_cases
                     ret == IF hit
                            THEN InvokeSpecialCase(special_cases[filename], cwdir,
                                     "ace", filename, <<>>, dirOK, present, inf)
                            ELSE NoResult
                     warned == IF hit /\ ret.ok
                               THEN Append(output_warnings, ret.err_msg)
                               ELSE output_warnings
                 IN /\ cwdir' = IF hit THEN ret.cwd ELSE cwdir
                    /\ output_warnings' = warned
                    /\ IF hit /\ ~ret.ok
                       THEN /\ err' = "SpecialCaseError"
                            /\ log' = Append(log, Entry(particle, filename, "error", 0))
                            /\ UNCHANGED <<queue, library>>
                       ELSE IF hit /\ ret.skip_file
                       THEN /\ log' = Append(log, Entry(particle, filename, "skipped", 0))
                            /\ queue' = Tail(queue)
                            /\ UNCHANGED <<err, library>>
                       ELSE IF parsed = 0
                       THEN /\ err' = "ParseError"
                            /\ log' = Append(log, Entry(particle, filename, "error", 0))
                            /\ UNCHANGED <<queue, library>>
                       ELSE /\ library' = Append(library, H5File(particle, parsed))
                            /\ log' = Append(log, Entry(particle, filename,
                                                        "converted", parsed))
                            /\ queue' = Tail(queue)
                            /\ UNCHANGED err
    /\ UNCHANGED <<args, pc, idx, exhausted, discovered, inf, xml_exports,
                   printed, removed, toolFailed, finished, stream, called,
                   result>>

\* lines 431-441, one iteration of the photon file loop
ConvertPhotonFile ==
    /\ pc = "convert_files" /\ err = "" /\ queue # <<>>
    /\ args.particles[idx] = "photon"
    /\ LET photo_path == Head(queue)
       IN \E parsed \in DataNames("photon") \cup {0} :
            IF parsed = 0
            THEN /\ err' = "ParseError"
                 /\ log' = Append(log, Entry("photon", photo_path, "error", 0))
                 /\ UNCHANGED <<queue, library>>
            ELSE /\ library' = Append(library, H5File("photon", parsed))
                 /\ log' = Append(log, Entry("photon", photo_path,
                                             "converted", parsed))
                 /\ queue' = Tail(queue)
                 /\ UNCHANGED err
    /\ UNCHANGED <<args, pc, idx, cwdir, output_warnings, exhausted,
                   discovered, inf, xml_exports, printed, removed,
                   toolFailed, finished, stream, called, result>>

\* lines 426-428 / 443-445: the file loop is over, remove the directory
ConvertParticleDone ==
    /\ pc = "convert_files" /\ err = "" /\ queue = <<>>
    /\ LET particle == args.particles[idx]
           dir == IF particle = "neutron" THEN "ace" ELSE "endf"
       IN /\ removed' = IF args.cleanup THEN removed \cup {dir} ELSE removed
          /\ finished' = Append(finished, particle)
    /\ idx' = idx + 1
    /\ pc' = "convert"
    /\ UNCHANGED <<args, err, cwdir, output_warnings, library, exhausted,
                   discovered, inf, queue, log, xml_exports, printed,
                   toolFailed, stream, called, result>>

\* lines 447-449
ExportXml ==
    /\ pc = "convert" /\ err = "" /\ ConvertLoopOver
    /\ xml_exports' = xml_exports + 1
    /\ pc' = "warnings"
    /\ UNCHANGED <<args, idx, err, cwdir, output_warnings, library,
                   exhausted, discovered, inf, queue, log, printed, removed,
                   toolFailed, finished, stream, called, result>>

\* lines 452-453, one iteration
PrintWarning ==
    /\ pc = "warnings" /\ err = "" /\ printed < Len(output_warnings)
    /\ printed' = printed + 1
    /\ UNCHANGED <<args, pc, idx, err, cwdir, output_warnings, library,
                   exhausted, discovered, inf, queue, log, xml_exports,
                   removed, toolFailed, finished, stream, called, result>>

\* end of the script
Finish ==
    /\ pc = "warnings" /\ err = "" /\ printed = Len(output_warnings)
    /\ pc' = "done"
    /\ UNCHANGED <<args, idx, err, cwdir, output_warnings, library,
                   exhausted, discovered, inf, queue, log, xml_exports,
                   printed, removed, toolFailed, finished, stream, called,
                   result>>

Next ==
    \/ DownloadParticle
    \/ DownloadDone
    \/ SkipDownload
    \/ ExtractParticle
    \/ ExtractDone
    \/ SkipExtract
    \/ ConvertStart
    \/ ConvertNeutronFile
    \/ ConvertPhotonFile
    \/ ConvertParticleDone
    \/ ExportXml
    \/ PrintWarning
    \/ Finish

Spec == Init /\ [][Next]_vars

\* ------------------------------------------------- the functions on their own
\* The special-case functions and the splitters applied to every stream
\* and file-system answer, from the directory the script starts in.
FuncInit ==
    /\ args = [release |-> "2.1", particles |-> <<"photon">>,
               download |-> FALSE, extract |-> FALSE, cleanup |-> FALSE]
    /\ pc = "call"
    /\ idx = 1
    /\ err = ""
    /\ cwdir = "cwd"
    /\ output_warnings = <<>>
    /\ library = <<>>
    /\ exhausted = {}
    /\ discovered = [p \in Particles |-> {}]
    /\ inf = FALSE
    /\ queue = <<>>
    /\ log = <<>>
    /\ xml_exports = 0
    /\ printed = 0
    /\ removed = {}
    /\ toolFailed = FALSE
    /\ finished = <<>>
    /\ stream \in Streams(MaxLen)
    /\ called = NoCall
    /\ result = NoResult

CallFendl21Endf ==
    /\ called.fn = "none"
    /\ \E dirOK, present \in BOOLEAN :
         LET ret == fendl21_endf(cwdir, "endf", stream, dirOK, present)
         IN /\ called' = Call("fendl21_endf", dirOK, present, FALSE)
            /\ result' = ret
            /\ cwdir' = ret.cwd
    /\ UNCHANGED <<pipeVars, stream>>

CallSplitEndf ==
    /\ called.fn = "none"
    /\ \E present \in BOOLEAN :
         LET ret == split_endf(stream, present)
         IN /\ called' = Call("split_endf", TRUE, present, FALSE)
            /\ result' = ret
            /\ cwdir' = ret.cwd
    /\ UNCHANGED <<pipeVars, stream>>

CallFendl30K39 ==
    /\ called.fn = "none"
    /\ \E dirOK, present, hasInf \in BOOLEAN :
         LET ret == fendl30_k39(cwdir, "ace", K39, dirOK, present, hasInf)
         IN /\ called' = Call("fendl30_k39", dirOK, present, hasInf)
            /\ result' = ret
            /\ cwdir' = ret.cwd
    /\ UNCHANGED <<pipeVars, stream>>

FuncNext ==
    \/ CallFendl21Endf
    \/ CallSplitEndf
    \/ CallFendl30K39

FuncSpec == FuncInit /\ [][FuncNext]_vars

\* ------------------------------------------------------------------ claims
\* every record has an integer in the trailing column and a readable head
Readable(s) == \A i \in DOMAIN s : s[i].seq >= 0 /\ s[i].head

\* k >= 1 runs: strictly increasing inside a run, strictly decreasing at a
\* run boundary, so no two neighbours are equal
RunsOnly(s) ==
    /\ Len(s) >= 1
    /\ Readable(s)
    /\ \A i \in 1..(Len(s) - 1) : s[i].seq # s[i + 1].seq

Boundaries(s) == {i \in 2..Len(s) : s[i].seq < s[i - 1].seq}

NumRuns(s) == 1 + Cardinality(Boundaries(s))

SplitterReturned ==
    /\ called.fn \in {"fendl21_endf", "split_endf"}
    /\ called.dirOK
    /\ called.present

\* C1: for a header followed by k >= 1 runs, fendl21_endf and split_endf
\* write exactly k files, the last run included.
C1_OneFilePerRun ==
    (SplitterReturned /\ RunsOnly(stream))
        => (result.ok /\ Len(result.created) = NumRuns(stream))

\* the lines a..b are one maximal run of s
MaximalRun(s, a, b) ==
    /\ a <= b
    /\ a = 1 \/ a \in Boundaries(s)
    /\ b = Len(s) \/ (b + 1) \in Boundaries(s)
    /\ \A i \in (a + 1)..b : i \notin Boundaries(s)

\* content is the header line followed by the lines of one maximal run
OneEvaluation(s, content) ==
    /\ Len(content) >= 2
    /\ content[1] = 0
    /\ \A i \in 2..(Len(content) - 1) : content[i + 1] = content[i] + 1
    /\ MaximalRun(s, content[2], content[Len(content)])

\* C9: every file a splitter writes is the header line followed by the
\* records of exactly one evaluation, and no record is in two files, also
\* when a boundary restarts at a number other than 1.
C9_EachFileOneEvaluation ==
    (SplitterReturned /\ Readable(stream))
        => /\ \A k \in DOMAIN result.created :
                OneEvaluation(stream, result.created[k].content)
           /\ \A k, m \in DOMAIN result.created :
                k # m => \A i \in 2..Len(result.created[k].content) :
                           \A j \in 2..Len(result.created[m].content) :
                             result.created[k].content[i]
                                 # result.created[m].content[j]

\* C3: fendl30_k39 and fendl21_endf leave the working directory equal to
\* the caller's on every exit path, failures included.
C3_WorkingDirectoryRestored ==
    called.fn \in {"fendl30_k39", "fendl21_endf"} => cwdir = "cwd"

\* C10: fendl30_k39 returns skip_file = true exactly when the file holds the
\* sentinel, and a non-empty message exactly then.
C10_SkipIffSentinel ==
    (called.fn = "fendl30_k39" /\ result.ok)
        => /\ result.skip_file <=> called.hasInf
           /\ (result.err_msg # NoMessage) <=> called.hasInf

IsConverted(e) == e.result = "converted"

\* the files of particle p the convert loop left with the given result
FilesOf(p, what) ==
    {log[i].file : i \in {k \in DOMAIN log : log[k].particle = p /\ log[k].result = what}}

\* the log entries of the sentinel file of release 3.0
SentinelEntries ==
    {i \in DOMAIN log : /\ args.release = "3.0"
                        /\ log[i].particle = "neutron"
                        /\ log[i].file = K39
                        /\ inf}

WarningsNaming(f) ==
    {j \in DOMAIN output_warnings :
        \E n \in DOMAIN output_warnings[j].names : output_warnings[j].names[n] = f}

\* C2: in release 3.0, when the loop reaches 19K_039.ace and the file holds
\* 'Inf', the run does not abort: the file is skipped, nothing is registered
\* for it and exactly one warning names it.
C2_SentinelFileSkipped ==
    \A i \in SentinelEntries :
        /\ log[i].result = "skipped"
        /\ K39 \notin FilesOf("neutron", "converted")
        /\ Cardinality(WarningsNaming(K39)) = 1

\* C4: no container path is registered twice in one run.
C4_NoPathRegisteredTwice ==
    \A i, j \in DOMAIN library : i # j => library[i] # library[j]

\* C6: every stage-level error, a non-zero exit of unzip included, aborts
\* the run before any later stage and before the index is written; a known
\* data defect does not abort it.
C6_StageErrorsAbort ==
    /\ toolFailed => (pc = "extract" /\ xml_exports = 0)
    /\ err # "" => xml_exports = 0
    /\ \A i \in SentinelEntries : log[i].result # "error"

\* C5: the index is exported exactly once in a run that completes, after
\* the convert step of every selected particle and before any warning is
\* printed.
C5_ExportedOnceAfterConvert ==
    /\ xml_exports <= 1
    /\ pc = "done" => xml_exports = 1
    /\ xml_exports = 1 => /\ finished = args.particles
                          /\ queue = <<>>
                          /\ pc \in {"warnings", "done"}
    /\ printed > 0 => xml_exports = 1

C5_Witness ==
    /\ pc = "done"
    /\ xml_exports = 1
    /\ Len(args.particles) = 2
    /\ Len(library) > 0
    /\ printed > 0

\* the files of a listing the script is to convert
Expected(p) ==
    IF p = "neutron"
    THEN {f \in discovered[p] : f.suffix \notin {".ace_", ".xsd"}}
    ELSE discovered[p]

C8_DiscoveryOnlyInConvert ==
    /\ pc \in {"download", "extract"} =>
         (exhausted = {} /\ \A p \in Particles : discovered[p] = {})
    /\ \A p \in exhausted :
         /\ \E i \in 1..idx : i <= Len(args.particles) /\ args.particles[i] = p
         /\ (args.extract
             /\ check_special_case(release_details[args.release][p], "extract"))
                => Len(output_warnings) >= 1

C8_Witness ==
    /\ args.release = "2.1"
    /\ args.extract
    /\ "photon" \in exhausted
    /\ discovered["photon"] # {}
    /\ Len(output_warnings) = 1
    /\ Len(library) > 0

====
